---- MODULE Spec2Model ----
(***************************************************************************)
(* fsok - searchable treeview (src/fsok.py).                               *)
(*                                                                         *)
(* Strings are sequences of one-character strings, so that substring       *)
(* search, str.split, os.path.split and os.path.join are computed on the   *)
(* characters as Python computes them.                                     *)
(***************************************************************************)
EXTENDS Integers, Sequences, FiniteSets, TLC

VARIABLES
    fzf_match,        \* src/fsok.py:35
    treeview,         \* src/fsok.py:37
    treeview_levels,  \* src/fsok.py:39
    active,           \* src/fsok.py:43
    searchstr,        \* src/fsok.py:49
    files,            \* src/fsok.py:51
    hits,             \* src/fsok.py:53
    mainscreen,       \* src/fsok.py:47, and whether curses holds the terminal
    state_file,       \* $PWD/.fsok.state.txt, src/fsok.py:89
    pc                \* where the process is

vars ==
    <<fzf_match, treeview, treeview_levels, active, searchstr, files, hits,
      mainscreen, state_file, pc>>

---------------------------------------------------------------------------
(* Bounds *)

\* longest list of paths a directory walk yields
MaxFiles == 2
\* longest search token typed or restored in the interactive specification
MaxTok == 2
\* longest search token search_files is applied to in SpecFn
MaxFnTok == 3

---------------------------------------------------------------------------
(* Key codes *)

KEY_BACKSPACE == 263
KEY_RESIZE == 410
KEY_UP == 259
KEY_DOWN == 258
KEY_F5 == 269
CTRL_R == 18
CTRL_BACKSPACE == 8
RETURN == 10
CTRL_T == 20
CTRL_U == 11
KEY_DC == 330
ESC == 27
LIMIT == 255

\* the characters the user types in the interactive specification
KeyChars == {"q", ":"}

\* ord()
ord(c) ==
    CASE c = "q" -> 113
      [] c = ":" -> 58

\* chr() of the codes below 255 that getch() returns here
chr(k) == CHOOSE c \in KeyChars : ord(c) = k

\* str.isprintable() of chr(k): of the codes below 255 that reach line 341
\* here, the typed characters are printable and ESC is not
isprintable(k) == \E c \in KeyChars : ord(c) = k

Keys ==
    {KEY_BACKSPACE, KEY_RESIZE, KEY_UP, KEY_DOWN, KEY_F5, CTRL_R,
     CTRL_BACKSPACE, RETURN, CTRL_T, CTRL_U, KEY_DC, ESC, LIMIT}
    \cup {ord(c) : c \in KeyChars}

---------------------------------------------------------------------------
(* Strings and paths *)

Range(s) == {s[i] : i \in DOMAIN s}

\* the paths a walk yields here, os.path.join(r, x): two under the relative
\* root a and one under the absolute root /
PathAQ == <<"a", "/", "q">>
PathABC == <<"a", "/", "b", "/", "c">>
PathRootQ == <<"/", "q">>
RelPaths == {PathAQ, PathABC}

SeqsUpTo(S, n) == UNION {[1..k -> S] : k \in 0..n}

\* what the walks of find_files can yield: the roots may overlap and may be
\* walked in any order, so a path can come twice and in any position
FileLists == SeqsUpTo(RelPaths, MaxFiles) \cup {<<PathRootQ>>}
Tokens == SeqsUpTo(KeyChars, MaxTok)

\* a configured root as find_files meets it: whether os.path.isdir holds for
\* it and the paths os.walk yields under it, here none or one
NotADir == [isdir |-> FALSE, walk |-> <<>>]
RelRoots == {[isdir |-> TRUE, walk |-> w] : w \in SeqsUpTo(RelPaths, 1)}
AbsRoot == [isdir |-> TRUE, walk |-> <<PathRootQ>>]

\* the root lists of main, lines 556-557, as an index run meets them: up to
\* MaxFiles relative roots, any of which may be no directory, or the root /
RootLists ==
    UNION {[1..k -> RelRoots \cup {NotADir}] : k \in 1..MaxFiles} \cup {<<AbsRoot>>}

---------------------------------------------------------------------------
(* Python string operations *)

\* str.startswith
startswith(s, t) == Len(t) <= Len(s) /\ SubSeq(s, 1, Len(t)) = t

\* t in f, testing only the start of f
str_in_prefix_only(t, f) == startswith(f, t)

\* t in f, for strings: scan f from the left for an occurrence of t
RECURSIVE str_in(_, _)
str_in(t, f) ==
    IF Len(t) > Len(f) THEN FALSE
    ELSE IF startswith(f, t) THEN TRUE
    ELSE str_in(t, Tail(f))

\* str.split(sep) for a one-character separator: the pieces between the
\* separators, empty pieces included
RECURSIVE str_split(_, _)
str_split(s, sep) ==
    IF \A i \in DOMAIN s : s[i] # sep THEN <<s>>
    ELSE LET i == CHOOSE j \in DOMAIN s : s[j] = sep /\ \A k \in 1..(j - 1) : s[k] # sep
         IN  <<SubSeq(s, 1, i - 1)>> \o str_split(SubSeq(s, i + 1, Len(s)), sep)

\* str.rstrip('/')
RECURSIVE rstrip_slash(_)
rstrip_slash(s) ==
    IF s # <<>> /\ s[Len(s)] = "/" THEN rstrip_slash(SubSeq(s, 1, Len(s) - 1)) ELSE s

\* str.lstrip() and str.rstrip() of the white space typed here, the blank
RECURSIVE lstrip(_)
lstrip(s) == IF s # <<>> /\ s[1] = " " THEN lstrip(Tail(s)) ELSE s

RECURSIVE rstrip(_)
rstrip(s) == IF s # <<>> /\ s[Len(s)] = " " THEN rstrip(SubSeq(s, 1, Len(s) - 1)) ELSE s

\* str.strip()
strip(s) == rstrip(lstrip(s))

\* p.rfind('/') + 1
rfind_slash(p) ==
    IF \A j \in DOMAIN p : p[j] # "/" THEN 0
    ELSE CHOOSE j \in DOMAIN p : p[j] = "/" /\ \A k \in (j + 1)..Len(p) : p[k] # "/"

\* posixpath.split, the last lines: trailing slashes are stripped from the
\* head unless the head is only slashes
split_head_tail(head, tail) ==
    IF head # <<>> /\ \E k \in DOMAIN head : head[k] # "/"
    THEN <<rstrip_slash(head), tail>>
    ELSE <<head, tail>>

\* posixpath.split: (head, tail) around the last slash
os_path_split(p) ==
    split_head_tail(SubSeq(p, 1, rfind_slash(p)), SubSeq(p, rfind_slash(p) + 1, Len(p)))

\* posixpath.join of two components
os_path_join(a, b) ==
    IF startswith(b, <<"/">>) THEN b
    ELSE IF a = <<>> \/ a[Len(a)] = "/" THEN a \o b
    ELSE a \o <<"/">> \o b

---------------------------------------------------------------------------
(* path_splitter and create_levels *)

\* path_splitter, line 465: xx + [(t, r)]
extend_tokens(xx, t, r) ==
    IF xx.ok THEN [ok |-> TRUE, toks |-> Append(xx.toks, <<t, r>>)] ELSE xx

\* path_splitter(p): the (parent, name) pairs of p's segments, root first.
\* The recursion on the head never ends when the head is its own head ("/"):
\* Python then raises RecursionError, here ok = FALSE.
RECURSIVE path_splitter(_)
path_splitter_from(p, t, r) ==
    IF t # <<>>
    THEN IF t = p THEN [ok |-> FALSE, toks |-> <<>>]
         ELSE extend_tokens(path_splitter(t), t, r)
    ELSE IF r # <<>> THEN [ok |-> TRUE, toks |-> << <<(<<>>), r>> >>]
    ELSE [ok |-> TRUE, toks |-> <<>>]

path_splitter(p) == path_splitter_from(p, os_path_split(p)[1], os_path_split(p)[2])

\* the branch marker put before a directory's name
DirMark == <<"▽", " ">>

\* create_levels, lines 487-491, every segment given level 0
levels_of_flat(path_tokens, line) ==
    [i \in 1..Len(path_tokens) |->
        [level    |-> 0,
         xline    |-> line,
         parent   |-> path_tokens[i][1],
         name     |-> IF i - 1 < Len(path_tokens) - 1
                      THEN DirMark \o path_tokens[i][2]
                      ELSE path_tokens[i][2],
         fullpath |-> os_path_join(path_tokens[i][1], path_tokens[i][2])]]

\* create_levels, lines 487-491: the level tuples of one hit's path_tokens
levels_of(path_tokens, line) ==
    [i \in 1..Len(path_tokens) |->
        [level    |-> i - 1,
         xline    |-> line,
         parent   |-> path_tokens[i][1],
         name     |-> IF i - 1 < Len(path_tokens) - 1
                      THEN DirMark \o path_tokens[i][2]
                      ELSE path_tokens[i][2],
         fullpath |-> os_path_join(path_tokens[i][1], path_tokens[i][2])]]

\* create_levels, lines 485-491
hit_levels(f, line) == levels_of(path_splitter(f).toks, line)

\* create_levels, lines 495-501, with the "not in used" test dropped
add_level_always_new(st, l) ==
    [st EXCEPT !.used = @ \cup {l.fullpath},
               !.curr_levels = Append(@, [level |-> l.level, xline |-> l.xline,
                                          name |-> l.name, fullpath |-> l.fullpath]),
               !.cache = [fp \in (DOMAIN @) \cup {l.fullpath} |->
                            IF fp = l.fullpath THEN <<l.xline>> ELSE @[fp]]]

\* create_levels, lines 495-501: one level tuple against used and cache
add_level(st, l) ==
    IF l.fullpath \notin st.used
    THEN [st EXCEPT !.used = @ \cup {l.fullpath},
                    !.curr_levels = Append(@, [level |-> l.level, xline |-> l.xline,
                                               name |-> l.name, fullpath |-> l.fullpath]),
                    !.cache = [fp \in (DOMAIN @) \cup {l.fullpath} |->
                                 IF fp = l.fullpath THEN <<l.xline>> ELSE @[fp]]]
    ELSE [st EXCEPT !.cache[l.fullpath] = Append(@, l.xline)]

\* create_levels, lines 494-501: for l in levels
RECURSIVE add_levels(_, _)
add_levels(st, levels) ==
    IF levels = <<>> THEN st
    ELSE add_levels(add_level(st, Head(levels)), Tail(levels))

\* create_levels, lines 484-501: for f in hits
RECURSIVE scan_hits(_, _)
scan_hits(st, hs) ==
    IF hs = <<>> THEN st
    ELSE scan_hits(add_levels([st EXCEPT !.line = @ + 1], hit_levels(Head(hs), st.line)),
                   Tail(hs))

\* create_levels' locals after the loop over hits
curr_state(hs) ==
    scan_hits([line |-> 0, used |-> {}, cache |-> <<>>, curr_levels |-> <<>>], hs)

\* create_levels, lines 505-508, going through curr_levels from its end
flatten_reversed(curr_levels, cache) ==
    [k \in DOMAIN curr_levels |->
        <<curr_levels[Len(curr_levels) + 1 - k].level,
          cache[curr_levels[Len(curr_levels) + 1 - k].fullpath],
          curr_levels[Len(curr_levels) + 1 - k].name>>]

\* create_levels, lines 505-508: each entry <<level, cache[fullpath], name>>
flatten(curr_levels, cache) ==
    [k \in DOMAIN curr_levels |->
        <<curr_levels[k].level, cache[curr_levels[k].fullpath], curr_levels[k].name>>]

\* create_levels: ok = FALSE when path_splitter raises, else the new
\* treeview_levels
create_levels(hs) ==
    IF \E i \in DOMAIN hs : ~path_splitter(hs[i]).ok
    THEN [ok |-> FALSE, levels |-> <<>>]
    ELSE [ok |-> TRUE, levels |-> flatten(curr_state(hs).curr_levels, curr_state(hs).cache)]

---------------------------------------------------------------------------
(* search_files and fzf_search *)

\* search_files, lines 193-196, without the break: every matching sub-token
\* appends the path
RECURSIVE match_any_no_break(_, _, _)
match_any_no_break(toks, f, hs) ==
    IF toks = <<>> THEN hs
    ELSE IF str_in(Head(toks), f) THEN match_any_no_break(Tail(toks), f, Append(hs, f))
    ELSE match_any_no_break(Tail(toks), f, hs)

\* search_files, lines 193-196: for t in toks, append f at the first
\* sub-token it contains and break
RECURSIVE match_any(_, _, _)
match_any(toks, f, hs) ==
    IF toks = <<>> THEN hs
    ELSE IF str_in(Head(toks), f) THEN Append(hs, f)
    ELSE match_any(Tail(toks), f, hs)

\* search_files, lines 191-199: for f in files
RECURSIVE substring_search(_, _, _)
substring_search(tok, fs, hs) ==
    IF fs = <<>> THEN hs
    ELSE substring_search(tok, Tail(fs),
            IF "|" \in Range(tok) THEN match_any(str_split(tok, "|"), Head(fs), hs)
            ELSE IF str_in(tok, Head(fs)) THEN Append(hs, Head(fs))
            ELSE hs)

\* how many times x is in s
Count(s, x) == Cardinality({i \in DOMAIN s : s[i] = x})

\* what `fzf --filter` can print for the lines of files: some of the lines,
\* each as often as it was given at most, in the order fzf ranks them
FzfOutputs(fs) ==
    {o \in SeqsUpTo(Range(fs), Len(fs)) : \A x \in Range(fs) : Count(o, x) <= Count(fs, x)}

\* fzf_search, lines 221-223: output.strip().split('\n') of the printed
\* lines; no line at all is the empty string, which splits into ['']
grepped_files(lines) ==
    IF lines = <<>> THEN << <<>> >> ELSE lines

\* fzf_search: Popen raises OSError when fzf cannot be started
fzf_search(fs) ==
    {[raised |-> TRUE, hits |-> <<>>]}
    \cup {[raised |-> FALSE, hits |-> grepped_files(o)] : o \in FzfOutputs(fs)}

\* search_files, lines 179-199: the new hits, or the exception of fzf_search
new_hits(ss, fs, fzf) ==
    IF ss = <<>> THEN {[raised |-> FALSE, hits |-> fs]}
    ELSE IF fzf THEN fzf_search(fs)
    ELSE {[raised |-> FALSE, hits |-> substring_search(ss, fs, <<>>)]}

\* search_files, lines 200-203
reset_active(hs) == IF hs # <<>> THEN 0 ELSE -1

\* search_files without line 204: the levels stay lv0
search_levels_stale(lv, lv0, next, caught) ==
    /\ treeview_levels' = lv0
    /\ pc' = IF lv.ok \/ caught THEN next ELSE "RecursionError"

\* search_files, line 204: create_levels, whose result is lv; lv0 are the
\* levels before
search_levels(lv, lv0, next, caught) ==
    IF lv.ok
    THEN treeview_levels' = lv.levels /\ pc' = next
    ELSE treeview_levels' = lv0 /\ pc' = IF caught THEN next ELSE "RecursionError"

\* search_files for the token ss, the paths fs and the mode fzf, entered with
\* the hits h0 and the levels lv0. It goes on at `next` when it returns; when
\* it raises, the process ends with the exception's name, or goes on at
\* `next` where the caller catches Exception.
search_files(ss, fs, fzf, h0, lv0, next, caught) ==
    \E o \in new_hits(ss, fs, fzf) :
        IF o.raised
        THEN /\ pc' = IF caught THEN next ELSE "OSError"
             /\ hits' = h0
             /\ treeview_levels' = lv0
             /\ UNCHANGED active
        ELSE /\ hits' = o.hits
             /\ active' = reset_active(o.hits)
             /\ search_levels(create_levels(o.hits), lv0, next, caught)

---------------------------------------------------------------------------
(* Navigation *)

\* move_active, lines 230-232, without the test for the first row
move_active_no_guard(up, act, tv, lvls, hs) ==
    IF up THEN act - 1
    ELSE IF tv
         THEN IF lvls # <<>> /\ act < lvls[Len(lvls)][2][1] THEN act + 1 ELSE act
         ELSE IF act + 1 < Len(hs) THEN act + 1 ELSE act

\* move_active: the new value of active
move_active(up, act, tv, lvls, hs) ==
    IF up
    THEN IF act > 0 THEN act - 1 ELSE act
    ELSE IF tv
         THEN IF lvls # <<>> /\ act < lvls[Len(lvls)][2][1] THEN act + 1 ELSE act
         ELSE IF act + 1 < Len(hs) THEN act + 1 ELSE act

\* the tokens on which Return leaves the loop
QuitCommands ==
    { <<":", "q">>, <<":", "q", "!">>, <<":", "e", "x", "i", "t">>,
      <<"e", "x", "i", "t", "(", ")">> }

\* the branch of mainloop's if/elif chain, lines 304-345, that key k takes
\* when the token is ss
branch(k, ss) ==
    IF k = KEY_BACKSPACE /\ ss # <<>> THEN "backspace"
    ELSE IF k = KEY_RESIZE THEN "resize"
    ELSE IF k = CTRL_R THEN "reverse"
    ELSE IF k = CTRL_BACKSPACE THEN "clear"
    ELSE IF k = RETURN THEN "return"
    ELSE IF k = CTRL_T THEN "toggle_view"
    ELSE IF k = CTRL_U THEN "toggle_match"
    ELSE IF k > LIMIT
         THEN IF k = KEY_UP THEN "up"
              ELSE IF k = KEY_DOWN THEN "down"
              ELSE IF k = KEY_F5 THEN "reload"
              ELSE IF k = KEY_DC THEN "clear_dc"
              ELSE "other_high"
    ELSE IF k < LIMIT
         THEN IF isprintable(k) THEN "char" ELSE "not_printable"
    ELSE "limit"

Reverse(s) == [i \in DOMAIN s |-> s[Len(s) + 1 - i]]

---------------------------------------------------------------------------
(* The state file and the index *)

\* no file .fsok.state.txt in the working directory
NoFile == [isfile |-> FALSE, content |-> <<>>]

\* store_state that leaves an old file alone when the token is empty
store_state_keeps_file(ss) ==
    IF Len(ss) = 0 THEN state_file ELSE [isfile |-> TRUE, content |-> ss]

\* store_state, lines 90-97: the state file it leaves for the token ss
store_state(ss) ==
    IF Len(ss) = 0 THEN NoFile ELSE [isfile |-> TRUE, content |-> ss]

\* restore_state, lines 111-113: f.read().strip() of the file sf, empty when
\* there is no file
read_state(sf) == IF sf.isfile THEN strip(sf.content) ELSE <<>>

\* os.path.isdir that holds for everything
os_path_isdir_anything(root) == TRUE

\* os.path.isdir(root), line 521
os_path_isdir(root) == root.isdir

\* find_files, lines 520-526: the roots rs in turn, files being fs so far;
\* raised when a root is no directory (SystemExit(1))
RECURSIVE find_files(_, _)
find_files(rs, fs) ==
    IF rs = <<>> THEN [raised |-> FALSE, files |-> fs]
    ELSE IF ~os_path_isdir(Head(rs)) THEN [raised |-> TRUE, files |-> fs]
    ELSE find_files(Tail(rs), fs \o Head(rs).walk)

\* what find_files does to an empty files, over all root lists
FindFilesResults == {find_files(rs, <<>>) : rs \in RootLists}

\* the tokens searchstr can hold when SIGINT arrives inside the handling of
\* a key, after lines 305, 315, 339 or 343 and before or during search_files
key_mutations(ss) ==
    {<<>>}
    \cup (IF ss # <<>> THEN {SubSeq(ss, 1, Len(ss) - 1)} ELSE {})
    \cup (IF Len(ss) < MaxTok THEN {Append(ss, c) : c \in KeyChars} ELSE {})

\* the tokens searchstr can hold when SIGINT arrives at position p
tokens_at_signal(p, ss, sf) ==
    IF p = "getch" THEN {ss} \cup key_mutations(ss)
    ELSE IF p = "restore" THEN {ss} \cup {read_state(sf)}
    ELSE {ss}

---------------------------------------------------------------------------
(* The process *)

\* the globals as the module sets them, lines 35-53; fzf_match is what the
\* -f option makes it
Init ==
    /\ fzf_match \in BOOLEAN
    /\ treeview = TRUE
    /\ treeview_levels = <<>>
    /\ active = 0
    /\ searchstr = <<>>
    /\ files = <<>>
    /\ hits = <<>>
    /\ mainscreen = "None"
    /\ state_file = NoFile
    /\ pc = "start"

\* main, lines 559-561, find_files having done r: a root that is no
\* directory ends the process with status 1; else hits = files,
\* create_levels, bind_ctrlc_etc and init_curses_screen
FindFilesWith(r) ==
    /\ pc = "start"
    /\ files' = r.files
    /\ IF r.raised
       THEN /\ pc' = "exit1"
            /\ UNCHANGED <<hits, treeview_levels, mainscreen>>
       ELSE /\ hits' = r.files
            /\ search_levels(create_levels(r.files), treeview_levels, "restore", FALSE)
            /\ mainscreen' = IF create_levels(r.files).ok THEN "curses" ELSE mainscreen
    /\ UNCHANGED <<fzf_match, treeview, active, searchstr, state_file>>

FindFiles == \E r \in FindFilesResults : FindFilesWith(r)

\* restore_state: with a state file whose stripped content is not empty,
\* searchstr = list(content) and search_files, any Exception being passed over
RestoreState ==
    /\ pc = "restore"
    /\ IF read_state(state_file) = <<>>
       THEN /\ pc' = "mainloop"
            /\ UNCHANGED <<searchstr, hits, active, treeview_levels>>
       ELSE /\ searchstr' = read_state(state_file)
            /\ search_files(searchstr', files, fzf_match, hits, treeview_levels,
                            "mainloop", TRUE)
    /\ UNCHANGED <<fzf_match, treeview, files, mainscreen, state_file>>

\* mainloop, line 293: the search before the first key
MainloopEntry ==
    /\ pc = "mainloop"
    /\ search_files(searchstr, files, fzf_match, hits, treeview_levels, "getch", FALSE)
    /\ UNCHANGED <<fzf_match, treeview, searchstr, files, mainscreen, state_file>>

\* lines 304-305 and 347-348
KeyBackspace ==
    /\ pc = "getch"
    /\ \E k \in Keys : branch(k, searchstr) = "backspace"
    /\ searchstr' = SubSeq(searchstr, 1, Len(searchstr) - 1)
    /\ search_files(searchstr', files, fzf_match, hits, treeview_levels, "getch", FALSE)
    /\ UNCHANGED <<fzf_match, treeview, files, mainscreen, state_file>>

\* lines 306-309
KeyResize ==
    /\ pc = "getch"
    /\ \E k \in Keys : branch(k, searchstr) = "resize"
    /\ UNCHANGED <<fzf_match, treeview, treeview_levels, active, searchstr, files, hits, mainscreen, state_file, pc>>

\* lines 311-312 and 347-348
KeyReverse ==
    /\ pc = "getch"
    /\ \E k \in Keys : branch(k, searchstr) = "reverse"
    /\ files' = Reverse(files)
    /\ search_files(searchstr, files', fzf_match, hits, treeview_levels, "getch", FALSE)
    /\ UNCHANGED <<fzf_match, treeview, searchstr, mainscreen, state_file>>

\* lines 314-315 and 347-348
KeyClear ==
    /\ pc = "getch"
    /\ \E k \in Keys : branch(k, searchstr) = "clear"
    /\ searchstr' = <<>>
    /\ search_files(searchstr', files, fzf_match, hits, treeview_levels, "getch", FALSE)
    /\ UNCHANGED <<fzf_match, treeview, files, mainscreen, state_file>>

\* lines 316-321: on a quit command the loop ends and main, line 564, calls
\* quit_peacefully; else open_file, which reads hits[active] when active >= 0
KeyReturn ==
    /\ pc = "getch"
    /\ \E k \in Keys : branch(k, searchstr) = "return"
    /\ IF searchstr \in QuitCommands
       THEN /\ state_file' = store_state(searchstr)
            /\ mainscreen' = "endwin"
            /\ pc' = "exit0"
       ELSE /\ pc' = IF active >= 0 /\ active + 1 \notin DOMAIN hits
                     THEN "IndexError" ELSE "getch"
            /\ UNCHANGED <<mainscreen, state_file>>
    /\ UNCHANGED <<fzf_match, treeview, treeview_levels, active, searchstr, files, hits>>

\* lines 322-324 with dosearch left True
KeyToggleView_and_search ==
    /\ pc = "getch"
    /\ \E k \in Keys : branch(k, searchstr) = "toggle_view"
    /\ treeview' = ~treeview
    /\ search_files(searchstr, files, fzf_match, hits, treeview_levels, "getch", FALSE)
    /\ UNCHANGED <<fzf_match, searchstr, files, mainscreen, state_file>>

\* lines 322-324
KeyToggleView ==
    /\ pc = "getch"
    /\ \E k \in Keys : branch(k, searchstr) = "toggle_view"
    /\ treeview' = ~treeview
    /\ UNCHANGED <<fzf_match, treeview_levels, active, searchstr, files, hits, mainscreen, state_file, pc>>

\* lines 325-327 and 347-348
KeyToggleMatch ==
    /\ pc = "getch"
    /\ \E k \in Keys : branch(k, searchstr) = "toggle_match"
    /\ fzf_match' = ~fzf_match
    /\ search_files(searchstr, files, fzf_match', hits, treeview_levels, "getch", FALSE)
    /\ UNCHANGED <<treeview, searchstr, files, mainscreen, state_file>>

\* lines 330-331
KeyUp ==
    /\ pc = "getch"
    /\ \E k \in Keys : branch(k, searchstr) = "up"
    /\ active' = move_active(TRUE, active, treeview, treeview_levels, hits)
    /\ UNCHANGED <<fzf_match, treeview, treeview_levels, searchstr, files, hits, mainscreen, state_file, pc>>

\* lines 332-333
KeyDown ==
    /\ pc = "getch"
    /\ \E k \in Keys : branch(k, searchstr) = "down"
    /\ active' = move_active(FALSE, active, treeview, treeview_levels, hits)
    /\ UNCHANGED <<fzf_match, treeview, treeview_levels, searchstr, files, hits, mainscreen, state_file, pc>>

\* lines 336 and 347-348: find_files has walked fs and its create_levels
\* gave lv; then search_files
reload_search(fs, lv) ==
    IF lv.ok
    THEN search_files(searchstr, fs, fzf_match, fs, lv.levels, "getch", FALSE)
    ELSE /\ hits' = fs
         /\ treeview_levels' = <<>>
         /\ pc' = "RecursionError"
         /\ UNCHANGED active

\* lines 334-336 and 347-348: reload_tree empties treeview_levels and files,
\* find_files walks the roots again, then search_files runs
KeyReloadWith(r) ==
    /\ pc = "getch"
    /\ \E k \in Keys : branch(k, searchstr) = "reload"
    /\ files' = r.files
    /\ IF r.raised
       THEN /\ pc' = "exit1"
            /\ treeview_levels' = <<>>
            /\ UNCHANGED <<hits, active>>
       ELSE reload_search(r.files, create_levels(r.files))
    /\ UNCHANGED <<fzf_match, treeview, searchstr, mainscreen, state_file>>

KeyReload == \E r \in FindFilesResults : KeyReloadWith(r)

\* lines 338-339: inside the branch that has set dosearch to False
KeyClearDc ==
    /\ pc = "getch"
    /\ \E k \in Keys : branch(k, searchstr) = "clear_dc"
    /\ searchstr' = <<>>
    /\ UNCHANGED <<fzf_match, treeview, treeview_levels, active, files, hits, mainscreen, state_file, pc>>

\* lines 328-329: any other key above 255
KeyOtherHigh ==
    /\ pc = "getch"
    /\ \E k \in Keys : branch(k, searchstr) = "other_high"
    /\ UNCHANGED <<fzf_match, treeview, treeview_levels, active, searchstr, files, hits, mainscreen, state_file, pc>>

\* lines 340-343 and 347-348
KeyChar ==
    /\ pc = "getch"
    /\ Len(searchstr) < MaxTok
    /\ \E k \in Keys :
        /\ branch(k, searchstr) = "char"
        /\ searchstr' = Append(searchstr, chr(k))
    /\ search_files(searchstr', files, fzf_match, hits, treeview_levels, "getch", FALSE)
    /\ UNCHANGED <<fzf_match, treeview, files, mainscreen, state_file>>

\* lines 344-345
KeyNotPrintable ==
    /\ pc = "getch"
    /\ \E k \in Keys : branch(k, searchstr) = "not_printable"
    /\ UNCHANGED <<fzf_match, treeview, treeview_levels, active, searchstr, files, hits, mainscreen, state_file, pc>>

\* key code 255 takes no branch: dosearch is still True at line 347
KeyLimit ==
    /\ pc = "getch"
    /\ \E k \in Keys : branch(k, searchstr) = "limit"
    /\ search_files(searchstr, files, fzf_match, hits, treeview_levels, "getch", FALSE)
    /\ UNCHANGED <<fzf_match, treeview, searchstr, files, mainscreen, state_file>>

\* SIGINT once bind_ctrlc_etc has run: quit_peacefully stores the token that
\* searchstr holds at that moment, leaves curses and exits. What an
\* interrupted search_files has done to hits is of no effect afterwards.
Interrupt ==
    /\ pc \in {"restore", "mainloop", "getch"}
    /\ \E ss \in tokens_at_signal(pc, searchstr, state_file) :
        /\ searchstr' = ss
        /\ state_file' = store_state(ss)
    /\ mainscreen' = "endwin"
    /\ pc' = "exit0"
    /\ UNCHANGED <<fzf_match, treeview, treeview_levels, active, files, hits>>

Next ==
    \/ FindFiles
    \/ RestoreState
    \/ MainloopEntry
    \/ KeyBackspace
    \/ KeyResize
    \/ KeyReverse
    \/ KeyClear
    \/ KeyReturn
    \/ KeyToggleView
    \/ KeyToggleMatch
    \/ KeyUp
    \/ KeyDown
    \/ KeyReload
    \/ KeyClearDc
    \/ KeyOtherHigh
    \/ KeyChar
    \/ KeyNotPrintable
    \/ KeyLimit
    \/ Interrupt

Spec == Init /\ [][Next]_vars

---------------------------------------------------------------------------
(* search_files applied to bounded inputs, in substring mode *)

\* the characters of the tokens search_files is applied to
FnChars == {"b", "c", "/", "|"}
FnTokens == SeqsUpTo(FnChars, MaxFnTok)

\* three paths of one walk, two directories deep
PathABX == <<"a", "/", "b", "/", "x", ".", "t", "x", "t">>
PathABY == <<"a", "/", "b", "/", "y", ".", "t", "x", "t">>
PathACZ == <<"a", "/", "c", "/", "z", ".", "t", "x", "t">>
WalkXYZ == <<PathABX, PathABY, PathACZ>>

InitFn ==
    /\ fzf_match = FALSE
    /\ treeview = TRUE
    /\ treeview_levels = <<>>
    /\ active = 0
    /\ searchstr \in FnTokens
    /\ files \in FileLists \cup {WalkXYZ}
    /\ hits = <<>>
    /\ mainscreen = "curses"
    /\ state_file = NoFile
    /\ pc = "call"

CallSearchFiles ==
    /\ pc = "call"
    /\ search_files(searchstr, files, fzf_match, hits, treeview_levels, "ret", FALSE)
    /\ UNCHANGED <<fzf_match, treeview, searchstr, files, mainscreen, state_file>>

NextFn == CallSearchFiles

SpecFn == InitFn /\ [][NextFn]_vars

---------------------------------------------------------------------------
(* Sessions that follow each other in one working directory *)

\* the characters of the tokens a session is left with: a printable
\* character and the blank, which chr(32).isprintable() lets through line 342
SessionChars == {"q", " "}
SessionTokens == SeqsUpTo(SessionChars, MaxTok)

\* mainloop waiting for a key, in substring mode, after the token was typed
InitSession ==
    /\ fzf_match = FALSE
    /\ treeview = TRUE
    /\ searchstr \in SessionTokens
    /\ files \in SeqsUpTo(RelPaths, MaxFiles)
    /\ hits = IF searchstr = <<>> THEN files ELSE substring_search(searchstr, files, <<>>)
    /\ active = reset_active(hits)
    /\ treeview_levels = create_levels(hits).levels
    /\ mainscreen = "curses"
    /\ state_file = NoFile
    /\ pc = "getch"

\* the program is started again in the same directory: the globals are as
\* the module sets them, lines 35-53, and the state file is as it was left
NextStartup ==
    /\ pc = "exit0"
    /\ fzf_match' \in BOOLEAN
    /\ treeview' = TRUE
    /\ treeview_levels' = <<>>
    /\ active' = 0
    /\ searchstr' = <<>>
    /\ files' = <<>>
    /\ hits' = <<>>
    /\ mainscreen' = "None"
    /\ pc' = "start"
    /\ UNCHANGED state_file

NextSession ==
    \/ Interrupt
    \/ NextStartup
    \/ FindFiles
    \/ RestoreState
    \/ MainloopEntry

SpecSession == InitSession /\ [][NextSession]_vars

---------------------------------------------------------------------------
(* What the claims speak of, stated apart from the code above *)

\* t occurs in f as a contiguous substring
Contains(t, f) == \E i \in 0..(Len(f) - Len(t)) : SubSeq(f, i + 1, i + Len(t)) = t

\* the pieces of tok between its '|' characters: tok[i..j] is a piece when a
\* '|' or an end of tok is on each side of it and no '|' is inside it
SubTokens(tok) ==
    {SubSeq(tok, i, j) : <<i, j>> \in
        {ij \in (1..(Len(tok) + 1)) \X (0..Len(tok)) :
            /\ ij[2] >= ij[1] - 1
            /\ (ij[1] = 1 \/ tok[ij[1] - 1] = "|")
            /\ (ij[2] = Len(tok) \/ tok[ij[2] + 1] = "|")
            /\ \A k \in ij[1]..ij[2] : tok[k] # "|"}}

\* a path matches a token when it contains one of the token's pieces
MatchesToken(tok, f) == \E st \in SubTokens(tok) : Contains(st, f)

\* the Matcher's result in substring mode
Matched(tok, fs) == SelectSeq(fs, LAMBDA f : MatchesToken(tok, f))

\* the cumulative full paths of the segments of a relative path h: its
\* prefixes that end where a segment ends
SegmentPaths(h) ==
    {SubSeq(h, 1, k) : k \in {n \in 1..Len(h) : h[n] # "/" /\ (n = Len(h) \/ h[n + 1] = "/")}}

\* the members of a set of numbers, in increasing order
Increasing(S) ==
    CHOOSE s \in [1..Cardinality(S) -> S] : \A i, j \in 1..Cardinality(S) : i < j => s[i] < s[j]

\* the line numbers of the hits that pass through the path fp
LinesThrough(hs, fp) == Increasing({i - 1 : i \in {n \in DOMAIN hs : fp \in SegmentPaths(hs[n])}})

\* how many ancestor segments the relative path fp has
Depth(fp) == Cardinality({i \in DOMAIN fp : fp[i] = "/"})

\* the line number of the first hit that passes through the path fp
FirstLine(hs, fp) == LinesThrough(hs, fp)[1]

\* the directory of the relative path fp: what is before its last '/'
ParentPath(fp) ==
    SubSeq(fp, 1, (CHOOSE i \in DOMAIN fp : fp[i] = "/" /\ \A j \in (i + 1)..Len(fp) : fp[j] # "/") - 1)

\* what find_files does over the root lists that hold a root that is no
\* directory, in any position
BadRootResults ==
    {find_files(rs, <<>>) : rs \in {x \in RootLists : \E i \in DOMAIN x : ~x[i].isdir}}

\* the value search_files gives active
Reset(hs) == IF hs = <<>> THEN -1 ELSE 0

\* the largest of a non-empty sequence of numbers
MaxOf(s) == CHOOSE m \in Range(s) : \A x \in Range(s) : x <= m

---------------------------------------------------------------------------
(* Claims *)

\* C1: whenever mainloop waits for a key, the Hit List is the Matcher's
\* result for the current token and paths; with an empty token it is the
\* whole Path sequence. (Stated for substring mode, where the Matcher's
\* result is determined by the token and the paths.)
C1_HitsFollowToken ==
    (pc = "getch" /\ ~fzf_match) =>
        hits = IF searchstr = <<>> THEN files ELSE Matched(searchstr, files)

\* C2: in substring mode, for a non-empty token without '|', search_files
\* sets hits to exactly the paths containing the token, in the order and
\* multiplicity of files.
C2_SubstringHits ==
    (pc # "call" /\ ~fzf_match /\ searchstr # <<>> /\ "|" \notin Range(searchstr)) =>
        hits = SelectSeq(files, LAMBDA f : Contains(searchstr, f))

\* C2 witness: a token without '|' has filtered some paths out and kept one
C2_Witness ==
    /\ pc = "ret"
    /\ searchstr # <<>>
    /\ "|" \notin Range(searchstr)
    /\ hits # <<>>
    /\ Len(hits) < Len(files)

\* C3: in substring mode, for a token with '|', search_files sets hits to
\* exactly the paths containing at least one piece of the token, in the order
\* of files, each entry once; an empty piece (a leading, trailing or doubled
\* '|') makes hits the whole Path sequence.
C3_OrHits ==
    (pc # "call" /\ ~fzf_match /\ "|" \in Range(searchstr)) =>
        /\ hits = SelectSeq(files, LAMBDA f : MatchesToken(searchstr, f))
        /\ ( ( \/ searchstr[1] = "|"
               \/ searchstr[Len(searchstr)] = "|"
               \/ \E i \in 1..(Len(searchstr) - 1) : searchstr[i] = "|" /\ searchstr[i + 1] = "|" )
             => hits = files )

\* C3 witness: two different non-empty pieces both match a path that is kept
\* once, and another path is filtered out
C3_Witness ==
    /\ pc = "ret"
    /\ "|" \in Range(searchstr)
    /\ <<>> \notin SubTokens(searchstr)
    /\ \E f \in Range(hits) : Cardinality({st \in SubTokens(searchstr) : Contains(st, f)}) >= 2
    /\ hits # <<>>
    /\ Len(hits) < Len(files)

\* C4: whenever mainloop waits for a key, every entry of the Hit List is an
\* element of the Path sequence, in both matcher modes: when the fuzzy
\* matcher prints nothing the Hit List is empty.
C4_HitsAmongFiles ==
    pc = "getch" => \A i \in DOMAIN hits : hits[i] \in Range(files)

\* C5: no error of fzf_search propagates out of mainloop.
C5_NoFzfErrorEndsLoop == pc # "OSError"

\* C6: after every key event active is -1 exactly when hits is empty and is
\* otherwise an index of hits, so open_file never indexes outside hits; up at
\* index 0 and down at the last index leave active unchanged.
C6_ActiveInRange ==
    [][ /\ pc' # "IndexError"
        /\ pc' = "getch" =>
            /\ (active' = -1 <=> hits' = <<>>)
            /\ (hits' # <<>> => active' \in 0..(Len(hits') - 1))
            /\ (KeyUp /\ active = 0 => active' = 0)
            /\ (KeyDown /\ active = Len(hits) - 1 => active' = active) ]_vars

\* C6 witness: down has moved active to the last of several hits
C6_Witness ==
    /\ pc = "getch"
    /\ Len(hits) >= 2
    /\ active = Len(hits) - 1

\* C7: after any rebuild-triggering key (a character, backspace on a
\* non-empty token, either clear key, the match-mode toggle, reload) active is
\* 0 when the Hit List is non-empty and -1 when it is empty.
C7_RebuildResetsActive ==
    [][ ( /\ pc = "getch"
          /\ pc' = "getch"
          /\ (KeyChar \/ KeyBackspace \/ KeyClear \/ KeyClearDc \/ KeyToggleMatch \/ KeyReload) )
        => active' = Reset(hits') ]_vars

\* C8: create_levels makes at most one Display Node per cumulative full
\* path; every segment path of every hit has its node, and the node's line
\* list is the line numbers of the hits passing through it, once each, in
\* increasing order.
C8_OneNodePerPath ==
    pc = "ret" =>
        /\ Len(treeview_levels) = Len(curr_state(hits).curr_levels)
        /\ \A j, k \in DOMAIN curr_state(hits).curr_levels :
              curr_state(hits).curr_levels[j].fullpath = curr_state(hits).curr_levels[k].fullpath
                  => j = k
        /\ \A i \in DOMAIN hits : \A fp \in SegmentPaths(hits[i]) :
              \E k \in DOMAIN curr_state(hits).curr_levels :
                  curr_state(hits).curr_levels[k].fullpath = fp
        /\ \A k \in DOMAIN treeview_levels :
              treeview_levels[k][2] = LinesThrough(hits, curr_state(hits).curr_levels[k].fullpath)

\* C8 witness: a directory node carries the lines of two hits
C8_Witness ==
    /\ pc = "ret"
    /\ \E k \in DOMAIN treeview_levels :
          /\ Len(treeview_levels[k][2]) >= 2
          /\ startswith(treeview_levels[k][3], DirMark)

\* C9: every line number 0..len(hits)-1 is in the line list of the leaf
\* Display Node whose full path is that hit, and the leaf nodes' line entries
\* total len(hits).
C9_EveryHitHasLeaf ==
    pc = "getch" =>
        \A i \in DOMAIN hits :
            \E k \in DOMAIN treeview_levels :
                /\ curr_state(hits).curr_levels[k].fullpath = hits[i]
                /\ ~startswith(treeview_levels[k][3], DirMark)
                /\ \E n \in DOMAIN treeview_levels[k][2] : treeview_levels[k][2][n] = i - 1

\* C10: in tree mode with a non-empty Hit List, active is a line number in
\* the line list of some Display Node.
C10_ActiveIsSomeLine ==
    (pc = "getch" /\ treeview /\ hits # <<>>) =>
        \E k \in DOMAIN treeview_levels : active \in Range(treeview_levels[k][2])

\* C11: the token store_state leaves on exit is the token restore_state
\* gives the next session, verbatim, for every token of printable characters
\* and blanks; an empty token leaves no state file and the next session
\* starts with an empty token.
C11_TokenRoundTrip ==
    [][ /\ Interrupt =>
            state_file' = [isfile |-> searchstr' # <<>>, content |-> searchstr']
        /\ RestoreState => searchstr' = state_file.content ]_vars

\* C12: SIGINT at any point of the main loop (waiting for a key, between a
\* token mutation and its rebuild, before the first search) is taken at once
\* and ends the process through quit_peacefully: the token searchstr holds
\* at that moment is persisted (file written if non-empty, removed if
\* empty), curses has left the terminal, and the process has exited.
C12_InterruptTearsDown ==
    [][ /\ pc \in {"restore", "mainloop", "getch"} => ENABLED Interrupt
        /\ Interrupt =>
            /\ pc' = "exit0"
            /\ mainscreen' = "endwin"
            /\ searchstr' \in tokens_at_signal(pc, searchstr, state_file)
            /\ searchstr' # <<>> => state_file' = [isfile |-> TRUE, content |-> searchstr']
            /\ searchstr' = <<>> => ~state_file'.isfile ]_vars

\* C12 witness: the process has exited on an interrupt that came between a
\* token mutation and its rebuild, the mutated token being in the file
C12_Witness ==
    /\ pc = "exit0"
    /\ mainscreen = "endwin"
    /\ ~fzf_match
    /\ searchstr # <<>>
    /\ state_file.content = searchstr
    /\ hits # substring_search(searchstr, files, <<>>)

\* C13: whenever find_files runs, at startup or on reload, over a root list
\* with a root that is no directory, in whichever position, the process ends
\* with status 1 and stays ended; at startup no hit, Display Node, token or
\* curses screen has been made by then.
C13_BadRootIsFatal ==
    [][ /\ \A r \in BadRootResults :
            (FindFilesWith(r) \/ KeyReloadWith(r))
            => /\ pc' = "exit1"
               /\ pc = "start" =>
                    /\ hits' = <<>>
                    /\ treeview_levels' = <<>>
                    /\ searchstr' = <<>>
                    /\ mainscreen' = "None"
        /\ pc = "exit1" => pc' = "exit1" ]_vars

\* C13 witness: a reload has ended the process at a root that is not the
\* first of the list
C13_Witness ==
    /\ pc = "exit1"
    /\ mainscreen = "curses"
    /\ files # <<>>

\* C14: in tree mode, down adds 1 to active exactly when active is less than
\* the largest line number in the line list of the last Display Node, also
\* when a path is in the Hit List more than once.
C14_DownStopsAtMaxLine ==
    (pc = "getch" /\ treeview /\ treeview_levels # <<>>) =>
        ( active < MaxOf(treeview_levels[Len(treeview_levels)][2])
          <=> ENABLED (KeyDown /\ active' = active + 1) )

\* C15: path_splitter returns for every path find_files can produce, so
\* neither create_levels nor any rebuild ends in RecursionError.
C15_SplitterReturns == pc # "RecursionError"

\* C16: up, down, the view toggle and Return on a token that is no quit
\* command rebuild nothing: token, paths, Hit List and Display Nodes stay;
\* up and down change nothing but active; the view toggle and Return leave
\* active as it is.
C16_NavigationKeepsLists ==
    [][ /\ (KeyUp \/ KeyDown \/ KeyToggleView \/ (KeyReturn /\ searchstr \notin QuitCommands))
            => UNCHANGED <<searchstr, files, hits, treeview_levels, fzf_match, pc>>
        /\ (KeyUp \/ KeyDown) => UNCHANGED treeview
        /\ (KeyToggleView \/ (KeyReturn /\ searchstr \notin QuitCommands))
            => UNCHANGED active ]_vars

\* C16 witness: the view has been toggled and active moved down, the Display
\* Nodes still being those of the Hit List
C16_Witness ==
    /\ pc = "getch"
    /\ ~treeview
    /\ active >= 1
    /\ treeview_levels # <<>>

\* C17: create_levels emits the Display Nodes in the order in which their
\* full paths are first met, scanning the hits in order and each hit's
\* segments root first; a node's depth is the number of its ancestor
\* segments and its line list starts with the line of the hit that first
\* brought it. For a/b/x.txt, a/b/y.txt, a/c/z.txt and an empty token the
\* nodes are a (0,1,2), a/b (0,1), a/b/x.txt (0), a/b/y.txt (1), a/c (2),
\* a/c/z.txt (2).
C17_FirstSeenOrder ==
    pc = "ret" =>
        /\ \A k \in DOMAIN treeview_levels :
              /\ treeview_levels[k][1] = Depth(curr_state(hits).curr_levels[k].fullpath)
              /\ treeview_levels[k][2][1] = FirstLine(hits, curr_state(hits).curr_levels[k].fullpath)
        /\ \A j, k \in DOMAIN treeview_levels :
              j < k =>
                \/ treeview_levels[j][2][1] < treeview_levels[k][2][1]
                \/ /\ treeview_levels[j][2][1] = treeview_levels[k][2][1]
                   /\ treeview_levels[j][1] < treeview_levels[k][1]
        /\ (files = WalkXYZ /\ searchstr = <<>>) =>
              treeview_levels =
                << <<0, <<0, 1, 2>>, DirMark \o <<"a">> >>,
                   <<1, <<0, 1>>, DirMark \o <<"b">> >>,
                   <<2, <<0>>, <<"x", ".", "t", "x", "t">> >>,
                   <<2, <<1>>, <<"y", ".", "t", "x", "t">> >>,
                   <<1, <<2>>, DirMark \o <<"c">> >>,
                   <<2, <<2>>, <<"z", ".", "t", "x", "t">> >> >>

\* C17 witness: the three paths have been flattened under an empty token
C17_Witness ==
    /\ pc = "ret"
    /\ files = WalkXYZ
    /\ searchstr = <<>>
    /\ Len(treeview_levels) > Len(hits)

\* C18: whenever mainloop waits for a key, treeview_levels is what
\* create_levels makes of the current hits, after reverse with an empty
\* token, reload, and the clear key that skips the search as well.
C18_LevelsFollowHits ==
    pc = "getch" => treeview_levels = create_levels(hits).levels

\* C18 witness: the clear key that skips the search has emptied the token
\* over a filtered Hit List that has Display Nodes
C18_Witness ==
    /\ pc = "getch"
    /\ searchstr = <<>>
    /\ hits # files
    /\ treeview_levels # <<>>

\* C19: in the Display Nodes built from relative paths, a node of depth
\* d > 0 comes after the node of its parent directory, which has depth d - 1
\* and whose line list holds every line of the child's; a node of depth 0
\* is a path without a parent.
C19_ParentBeforeChild ==
    pc = "ret" =>
        \A k \in DOMAIN treeview_levels :
            IF treeview_levels[k][1] > 0
            THEN \E j \in 1..(k - 1) :
                    /\ curr_state(hits).curr_levels[j].fullpath
                         = ParentPath(curr_state(hits).curr_levels[k].fullpath)
                    /\ treeview_levels[j][1] = treeview_levels[k][1] - 1
                    /\ Range(treeview_levels[k][2]) \subseteq Range(treeview_levels[j][2])
            ELSE "/" \notin Range(curr_state(hits).curr_levels[k].fullpath)

\* C19 witness: a node of depth 2 has been emitted
C19_Witness ==
    /\ pc = "ret"
    /\ \E k \in DOMAIN treeview_levels : treeview_levels[k][1] = 2

====
